---- MODULE Spec2Model ----
(***************************************************************************)
(* A model of package finish (graceful shutdown of servers).               *)
(*                                                                         *)
(* One Finisher, the goroutine that owns it (it calls Add and Wait), a few *)
(* goroutines that call Trigger, the operating system delivering signals,  *)
(* the clock, and the registered servers, whose Shutdown is code outside   *)
(* the package: it may return any error value at any time, or never.       *)
(***************************************************************************)
EXTENDS Integers, Sequences, FiniteSets, TLC

VARIABLES
    Timeout,    \* Finisher.Timeout, in seconds; 0 is "not set"
    Signals,    \* Finisher.Signals: [isNil, elems]; isNil is "not set"
    keepers,    \* Finisher.keepers: sequence of serverKeeper
    manSig,     \* Finisher.manSig: [made, buf, id]; ~made is the nil channel,
                \* id numbers the channels in the order make returned them
    pc,         \* where the goroutine that owns the Finisher is
    i,          \* Wait: index of the keeper the range loop is at (1-based)
    err,        \* Wait: the error the current Shutdown call returned
    ctxs,       \* Wait: the contexts created so far whose cancel is deferred
    stop,       \* Wait: content of the channel given to signal.Notify
    notified,   \* signals for which signal.Notify installed a handler
    now,        \* the clock: seconds since the running Wait began
    tpc,        \* where each goroutine calling Trigger is
    delivered,  \* the set of signals delivered to the process since the running
                \* Wait blocked in its select (empty when no Wait is blocked there)
    woke,       \* Wait: the case of the select that ran, "trigger" or the
                \* signal received; "none" before the select is over
    waits,      \* number of Wait calls started so far
    trace,      \* what the last Wait call did to the outside so far, in order:
                \* log lines, standard output, Shutdown calls and returns
    got         \* the channel the last getManSig call of each goroutine
                \* returned, by its id (0: none yet); goroutine 0 is the one
                \* that calls Wait, goroutine t > 0 the t-th that calls Trigger

vars == <<Timeout, Signals, keepers, manSig, pc, i, err, ctxs, stop, notified,
          now, tpc, delivered, woke, waits, trace, got>>

(***************************************************************************)
(* Bounds of the model.                                                    *)
(***************************************************************************)
MaxKeepers == 2     \* Add calls
MaxWaits == 1       \* Wait calls
MaxTriggers == 2    \* goroutines calling Trigger, one call each
MaxTime == 1        \* seconds the clock runs during one Wait

(***************************************************************************)
(* Values.                                                                 *)
(***************************************************************************)
\* The value Trigger sends.
Nil == "nil"

\* finish.go:15, in seconds
DefaultTimeout == 10

\* finish.go:26
DefaultSignals == <<"SIGINT", "SIGTERM">>

\* The signals the operating system may send to the process.
OsSignals == {"SIGINT", "SIGTERM", "SIGUSR1", "SIGWINCH"}

\* Those the process ignores when no handler is installed; any other signal
\* without a handler ends the process, and nothing of the program runs after.
IgnoredSignals == {"SIGWINCH"}

\* The servers of the program; a server may be added more than once.
Servers == {"srvA", "srvB"}

\* Error values a Shutdown may return. An error is the value the code compares
\* (id) and the text it formats with %s (text).
NoError == [id |-> "nil", text |-> "<nil>"]
DeadlineExceeded == [id |-> "context.DeadlineExceeded", text |-> "context deadline exceeded"]
errTest == [id |-> "errTest", text |-> "test error"]
Errors == {NoError, DeadlineExceeded, errTest}

Trig == 1..MaxTriggers

\* The goroutines that call getManSig: 0 calls Wait, the others Trigger.
Procs == {0} \cup Trig

Range(s) == {s[n] : n \in 1..Len(s)}

(***************************************************************************)
(* Options (options.go).  An option is a function on the keeper that       *)
(* returns an error; testOpt is the failing option of TestOptionError.     *)
(***************************************************************************)
WithTimeout(t) == [opt |-> "WithTimeout", name |-> "", timeout |-> t]
WithName(n) == [opt |-> "WithName", name |-> n, timeout |-> 0]
testOpt == [opt |-> "testOpt", name |-> "", timeout |-> 0]

\* opt(keeper): the keeper after the option, and the error it returns.
ApplyOption(o, keeper) ==
    CASE o.opt = "WithTimeout" -> [keeper |-> [keeper EXCEPT !.timeout = o.timeout], err |-> NoError]
      [] o.opt = "WithName" -> [keeper |-> [keeper EXCEPT !.name = o.name], err |-> NoError]
      [] OTHER -> [keeper |-> keeper, err |-> errTest]

\* (variant with a plausible slip: the options are applied last to first)
RECURSIVE ApplyOptionsLastFirst(_, _)
ApplyOptionsLastFirst(opts, keeper) ==
    IF opts = <<>> THEN [keeper |-> keeper, err |-> NoError]
    ELSE LET r == ApplyOption(opts[Len(opts)], keeper)
         IN IF r.err # NoError THEN r
            ELSE ApplyOptionsLastFirst(SubSeq(opts, 1, Len(opts) - 1), r.keeper)

\* The loop of Add over opts: stops at the first option that fails.
RECURSIVE ApplyOptions(_, _)
ApplyOptions(opts, keeper) ==
    IF opts = <<>> THEN [keeper |-> keeper, err |-> NoError]
    ELSE LET r == ApplyOption(Head(opts), keeper)
         IN IF r.err # NoError THEN r ELSE ApplyOptions(Tail(opts), r.keeper)

(***************************************************************************)
(* Finisher's configuration getters.                                       *)
(***************************************************************************)
signals == IF ~Signals.isNil THEN Signals.elems ELSE DefaultSignals

\* signal.Notify(stop, sigs...): the signals relayed to the channel. Called
\* with no signal (an empty, non-nil Signals), Notify relays every incoming
\* signal.
Relayed(sigs) == IF sigs = <<>> THEN OsSignals ELSE Range(sigs)

\* How many signals the stop channel takes without anybody receiving after:
\* its capacity, len(signals), or the one value handed to the select that is
\* blocked on it when the capacity is 0.
StopCap(sigs) == IF sigs = <<>> THEN 1 ELSE Len(sigs)

\* (variant with a plausible slip: the Timeout field is not read)
timeoutDefaultOnly == DefaultTimeout
timeout == IF Timeout # 0 THEN Timeout ELSE DefaultTimeout

\* fmt.Sprintf("server #%d", n)
ServerNum(n) == "server #" \o ToString(n)

\* (variants with a plausible slip: no case for the single keeper; the single
\* case tested on the first name only, its length check forgotten; numbering
\* among the unnamed keepers only)
updateNamesNoSingle(ks) ==
    [n \in 1..Len(ks) |->
        IF ks[n].name = "" THEN [ks[n] EXCEPT !.name = ServerNum(n)] ELSE ks[n]]
updateNamesNoLenCheck(ks) ==
    IF Len(ks) >= 1 /\ ks[1].name = ""
    THEN [n \in 1..Len(ks) |-> IF n = 1 THEN [ks[n] EXCEPT !.name = "server"] ELSE ks[n]]
    ELSE [n \in 1..Len(ks) |->
            IF ks[n].name = "" THEN [ks[n] EXCEPT !.name = ServerNum(n)] ELSE ks[n]]
updateNamesCountUnnamed(ks) ==
    IF Len(ks) = 1 /\ ks[1].name = ""
    THEN <<[ks[1] EXCEPT !.name = "server"]>>
    ELSE [n \in 1..Len(ks) |->
            IF ks[n].name = ""
            THEN [ks[n] EXCEPT !.name =
                     ServerNum(Cardinality({m \in 1..n : ks[m].name = ""}))]
            ELSE ks[n]]

\* updateNames: the keepers with their names finalized.
updateNames(ks) ==
    IF Len(ks) = 1 /\ ks[1].name = ""
    THEN <<[ks[1] EXCEPT !.name = "server"]>>
    ELSE [n \in 1..Len(ks) |->
            IF ks[n].name = "" THEN [ks[n] EXCEPT !.name = ServerNum(n)] ELSE ks[n]]

(***************************************************************************)
(* The log lines of Wait.                                                  *)
(***************************************************************************)
MsgReceived == "finish: shutdown signal received"
MsgShuttingDown(name) == "finish: shutting down " \o name \o " ..."
MsgClosed(name) == "finish: " \o name \o " closed"
MsgTimeout(name) == "finish: shutdown timeout for " \o name
MsgError(name, e) == "finish: error while shutting down " \o name \o ": " \o e.text

\* An entry of the trace. k is the keeper it is about (0: none), late whether
\* the keeper's context was done at that moment.
Event(kind, k, msg, late) == [kind |-> kind, k |-> k, msg |-> msg, late |-> late]
Infof(k, msg) == Event("info", k, msg, FALSE)
Errorf(k, msg) == Event("error", k, msg, FALSE)

(***************************************************************************)
(* Contexts: context.WithTimeout(context.Background(), keeper.timeout).    *)
(***************************************************************************)
\* (variant with a plausible slip: the deadline is counted from the wake
\* event, as with one context made before the loop)
WithTimeoutCtxFromWake(d) == [deadline |-> d, canceled |-> FALSE]
WithTimeoutCtx(d) == [deadline |-> now + d, canceled |-> FALSE]
CtxDone(c) == c.canceled \/ now >= c.deadline

(***************************************************************************)
(* The manual-signal channel.                                              *)
(***************************************************************************)
ManSigCap == 1

\* (variant with a plausible slip: the nil check is missing, every call makes
\* a new channel)
getManSigFresh == [made |-> TRUE, buf |-> <<>>, id |-> manSig.id + 1]

\* getManSig: under the mutex, make the channel if it is nil.
getManSig ==
    IF ~manSig.made THEN [made |-> TRUE, buf |-> <<>>, id |-> manSig.id + 1]
                    ELSE manSig

(***************************************************************************)
(* The initial state: a Finisher as New() or a struct literal makes it.    *)
(***************************************************************************)
TimeoutValues == {0}
SignalsValues == {[isNil |-> TRUE, elems |-> <<>>]}

Init ==
    /\ Timeout \in TimeoutValues
    /\ Signals \in SignalsValues
    /\ keepers = <<>>
    /\ manSig = [made |-> FALSE, buf |-> <<>>, id |-> 0]
    /\ pc = "main"
    /\ i = 0
    /\ err = NoError
    /\ ctxs = <<>>
    /\ stop = <<>>
    /\ notified = {}
    /\ now = 0
    /\ tpc = [t \in Trig |-> "idle"]
    /\ delivered = {}
    /\ woke = "none"
    /\ waits = 0
    /\ trace = <<>>
    /\ got = [p \in Procs |-> 0]

(***************************************************************************)
(* Add.                                                                    *)
(***************************************************************************)
\* The Add calls the program makes, each any number of times: one server
\* with no option, the other with a name and a timeout of one second.
AddMenu == {[srv |-> "srvA", opts |-> <<>>],
            [srv |-> "srvB", opts |-> <<WithName("public"), WithTimeout(1)>>]}

\* (variant with a plausible slip: the keeper is appended before its options
\* run, so a failing option leaves it in the list)
AddAppendFirst(srv, opts) ==
    /\ pc = "main"
    /\ Len(keepers) < MaxKeepers
    /\ LET keeper == [srv |-> srv, name |-> "", timeout |-> timeout]
           r == ApplyOptions(opts, keeper)
       IN /\ keepers' = Append(keepers, r.keeper)
          /\ trace' = IF r.err # NoError
                      THEN Append(trace, Event("panic", 0, r.err.text, FALSE))
                      ELSE trace
    /\ UNCHANGED <<Timeout, Signals, manSig, pc, i, err, ctxs, stop, notified,
                   now, tpc, delivered, woke, waits, got>>

Add(srv, opts) ==
    /\ pc = "main"
    /\ Len(keepers) < MaxKeepers
    /\ LET keeper == [srv |-> srv, name |-> "", timeout |-> timeout]
           r == ApplyOptions(opts, keeper)
       IN IF r.err # NoError
          THEN \* panic(err): nothing is appended
               /\ trace' = Append(trace, Event("panic", 0, r.err.text, FALSE))
               /\ UNCHANGED keepers
          ELSE /\ keepers' = Append(keepers, r.keeper)
               /\ UNCHANGED trace
    /\ UNCHANGED <<Timeout, Signals, manSig, pc, i, err, ctxs, stop, notified,
                   now, tpc, delivered, woke, waits, got>>

(***************************************************************************)
(* Wait.                                                                   *)
(*                                                                         *)
(* pc: "main" (outside Wait), "select" (blocked in the select), "woken",   *)
(* "loop" (at the head of the range loop), "shutdown" (inside the          *)
(* keeper's Shutdown), "returned" (Shutdown has returned, outcome not yet  *)
(* logged).                                                                *)
(***************************************************************************)
\* Lines 130-143: finalize the names, make the stop channel, install the
\* handlers, and evaluate the operands of the select (getManSig).
WaitCall ==
    /\ pc = "main"
    /\ keepers' = updateNames(keepers)
    /\ stop' = <<>>
    /\ notified' = notified \cup Relayed(signals)
    /\ manSig' = getManSig
    /\ got' = [got EXCEPT ![0] = getManSig.id]
    /\ waits' = waits + 1
    /\ trace' = <<>>
    /\ woke' = "none"
    /\ pc' = "select"
    /\ UNCHANGED <<Timeout, Signals, i, err, ctxs, now, tpc, delivered>>

\* The Wait calls of the program, at most MaxWaits of them.
WaitBegin == waits < MaxWaits /\ WaitCall

\* (variant with a plausible slip: the select sits in a for loop and its break
\* leaves the select only, so Wait waits again)
WakeSignalLoops ==
    /\ pc = "select"
    /\ stop # <<>>
    /\ stop' = Tail(stop)
    /\ delivered' = {}
    /\ UNCHANGED <<Timeout, Signals, keepers, manSig, pc, i, err, ctxs, notified,
                   now, tpc, woke, waits, trace, got>>

\* (variant with a plausible slip: the newline is printed for every signal)
WakeSignalAlwaysNewline ==
    /\ pc = "select"
    /\ stop # <<>>
    /\ woke' = Head(stop)
    /\ stop' = <<>>
    /\ delivered' = {}
    /\ trace' = Append(trace, Event("stdout", 0, "\n", FALSE))
    /\ pc' = "woken"
    /\ UNCHANGED <<Timeout, Signals, keepers, manSig, i, err, ctxs, notified,
                   now, tpc, waits, got>>

\* (variant with a plausible slip: the signal case empties the manual-signal
\* channel too)
WakeSignalDropsTrigger ==
    /\ pc = "select"
    /\ stop # <<>>
    /\ woke' = Head(stop)
    /\ stop' = <<>>
    /\ delivered' = {}
    /\ manSig' = [manSig EXCEPT !.buf = <<>>]
    /\ trace' = IF Head(stop) = "SIGINT"
                THEN Append(trace, Event("stdout", 0, "\n", FALSE))
                ELSE trace
    /\ pc' = "woken"
    /\ UNCHANGED <<Timeout, Signals, keepers, i, err, ctxs, notified,
                   now, tpc, waits, got>>

\* case sig := <-stop. Nothing reads the stop channel after the select.
WakeSignal ==
    /\ pc = "select"
    /\ stop # <<>>
    /\ woke' = Head(stop)
    /\ stop' = <<>>
    /\ delivered' = {}
    /\ trace' = IF Head(stop) = "SIGINT"
                THEN Append(trace, Event("stdout", 0, "\n", FALSE))
                ELSE trace
    /\ pc' = "woken"
    /\ UNCHANGED <<Timeout, Signals, keepers, manSig, i, err, ctxs, notified,
                   now, tpc, waits, got>>

\* (variant with a plausible slip: a receive that does not wait for a value)
WakeTriggerNoWait ==
    /\ pc = "select"
    /\ manSig' = [manSig EXCEPT !.buf = IF manSig.buf = <<>> THEN <<>> ELSE Tail(manSig.buf)]
    /\ woke' = "trigger"
    /\ stop' = <<>>
    /\ delivered' = {}
    /\ pc' = "woken"
    /\ UNCHANGED <<Timeout, Signals, keepers, i, err, ctxs, notified,
                   now, tpc, waits, trace, got>>

\* case <-f.getManSig()
WakeTrigger ==
    /\ pc = "select"
    /\ manSig.buf # <<>>
    /\ manSig' = [manSig EXCEPT !.buf = Tail(manSig.buf)]
    /\ woke' = "trigger"
    /\ stop' = <<>>
    /\ delivered' = {}
    /\ pc' = "woken"
    /\ UNCHANGED <<Timeout, Signals, keepers, i, err, ctxs, notified,
                   now, tpc, waits, trace, got>>

\* (variant with a plausible slip: the line is logged in the signal case only)
LogReceivedSignalOnly ==
    /\ pc = "woken"
    /\ trace' = IF woke = "trigger" THEN trace ELSE Append(trace, Infof(0, MsgReceived))
    /\ i' = 1
    /\ pc' = "loop"
    /\ UNCHANGED <<Timeout, Signals, keepers, manSig, err, ctxs, stop, notified,
                   now, tpc, delivered, woke, waits, got>>

\* Line 147.
LogReceived ==
    /\ pc = "woken"
    /\ trace' = Append(trace, Infof(0, MsgReceived))
    /\ i' = 1
    /\ pc' = "loop"
    /\ UNCHANGED <<Timeout, Signals, keepers, manSig, err, ctxs, stop, notified,
                   now, tpc, delivered, woke, waits, got>>

\* for _, keeper := range f.keepers: the index the n-th iteration visits, and
\* whether the loop is over before its n-th iteration.
\* (variants with a plausible slip: a loop that runs backwards, and one
\* that stops one keeper early)
RangeOrderReversed(n) == Len(keepers) + 1 - n
RangeOrder(n) == n
LoopDoneOffByOne(n) == n >= Len(keepers)
LoopDone(n) == n > Len(keepers)

\* Lines 150-153: the context, the "shutting down" line, the call of Shutdown.
DrainBegin ==
    /\ pc = "loop"
    /\ ~LoopDone(i)
    /\ LET k == RangeOrder(i)
           keeper == keepers[k]
           ctx == WithTimeoutCtx(keeper.timeout)
       IN /\ ctxs' = Append(ctxs, ctx)
          /\ trace' = trace \o <<Infof(k, MsgShuttingDown(keeper.name)),
                                  Event("invoke", k, keeper.srv, CtxDone(ctx))>>
    /\ pc' = "shutdown"
    /\ UNCHANGED <<Timeout, Signals, keepers, manSig, i, err, stop, notified,
                   now, tpc, delivered, woke, waits, got>>

\* The server's Shutdown returns e. The server is outside the package: any
\* error value, whether the context is done or not.
ShutdownReturn(e) ==
    /\ pc = "shutdown"
    /\ err' = e
    /\ trace' = Append(trace, Event("return", RangeOrder(i), e.id, CtxDone(ctxs[i])))
    /\ pc' = "returned"
    /\ UNCHANGED <<Timeout, Signals, keepers, manSig, i, ctxs, stop, notified,
                   now, tpc, delivered, woke, waits, got>>

\* (variants with a plausible slip: no nil check, no deadline case, every
\* error taken for the deadline)
OutcomeNoNilCheck(k, name, e) ==
    IF e = DeadlineExceeded
    THEN Errorf(k, MsgTimeout(name))
    ELSE Errorf(k, MsgError(name, e))
OutcomeNoDeadlineCase(k, name, e) ==
    IF e # NoError
    THEN Errorf(k, MsgError(name, e))
    ELSE Infof(k, MsgClosed(name))
OutcomeAllTimeout(k, name, e) ==
    IF e # NoError
    THEN Errorf(k, MsgTimeout(name))
    ELSE Infof(k, MsgClosed(name))

\* (variant with a plausible slip: the timeout is read off the context, not
\* off the error)
OutcomeByContext(k, name, e) ==
    IF CtxDone(ctxs[k])
    THEN Errorf(k, MsgTimeout(name))
    ELSE IF e # NoError
         THEN Errorf(k, MsgError(name, e))
         ELSE Infof(k, MsgClosed(name))

\* Lines 154-162: the line logged for the error e of keeper k.
Outcome(k, name, e) ==
    IF e # NoError
    THEN IF e = DeadlineExceeded
         THEN Errorf(k, MsgTimeout(name))
         ELSE Errorf(k, MsgError(name, e))
    ELSE Infof(k, MsgClosed(name))

\* Where the loop goes after its n-th iteration, whose Shutdown returned e: to
\* the next iteration, whatever e is.
\* (variant: a loop that gives up at the first error)
AfterOutcomeStopOnError(n, e) == IF e # NoError THEN Len(keepers) + 1 ELSE n + 1
AfterOutcome(n, e) == n + 1

DrainOutcome ==
    /\ pc = "returned"
    /\ trace' = Append(trace, Outcome(RangeOrder(i), keepers[RangeOrder(i)].name, err))
    /\ i' = AfterOutcome(i, err)
    /\ err' = NoError
    /\ pc' = "loop"
    /\ UNCHANGED <<Timeout, Signals, keepers, manSig, ctxs, stop, notified,
                   now, tpc, delivered, woke, waits, got>>

\* Line 164: the loop is over; the deferred cancels run and Wait returns, which
\* the trace records with the number of keepers the loop ranged over. No
\* context is left to observe the clock, which starts from 0 for the next Wait.
WaitReturn ==
    /\ pc = "loop"
    /\ LoopDone(i)
    /\ ctxs' = <<>>
    /\ trace' = Append(trace, Event("end", Len(keepers), "", FALSE))
    /\ i' = 0
    /\ now' = 0
    /\ pc' = "main"
    /\ UNCHANGED <<Timeout, Signals, keepers, manSig, err, stop, notified,
                   tpc, delivered, woke, waits, got>>

(***************************************************************************)
(* Trigger, one call per goroutine: getManSig, then the send.  The         *)
(* goroutines are numbered in the order of their calls.                    *)
(***************************************************************************)
TriggerCall(t) ==
    /\ tpc[t] = "idle"
    /\ \A u \in Trig : u < t => tpc[u] # "idle"
    /\ manSig' = getManSig
    /\ got' = [got EXCEPT ![t] = getManSig.id]
    /\ tpc' = [tpc EXCEPT ![t] = "send"]
    /\ UNCHANGED <<Timeout, Signals, keepers, pc, i, err, ctxs, stop, notified,
                   now, delivered, woke, waits, trace>>

\* f.getManSig() <- nil: a send on a channel of capacity 1.
CanSend(buf) == Len(buf) < ManSigCap

TriggerSend(t) ==
    /\ tpc[t] = "send"
    /\ CanSend(manSig.buf)
    /\ manSig' = [manSig EXCEPT !.buf = Append(manSig.buf, Nil)]
    /\ tpc' = [tpc EXCEPT ![t] = "done"]
    /\ UNCHANGED <<Timeout, Signals, keepers, pc, i, err, ctxs, stop, notified,
                   now, delivered, woke, waits, trace, got>>

(***************************************************************************)
(* The environment: signals and the clock.                                 *)
(***************************************************************************)
\* The operating system delivers sig between Notify and the moment the select
\* takes a case (Wait on its way to the select, or blocked in it). With a
\* handler installed by Notify the signal is sent, without blocking, to the
\* stop channel of the running Wait if Notify relays it there. At any other
\* time a signal changes nothing the program reads: before the first Wait it
\* ends the process or is ignored, and after the select it goes to a stop
\* channel nobody receives from (signal.Stop is never called; the next Wait
\* makes a new channel).
Deliver(sig) ==
    /\ pc = "select"
    /\ sig \in notified \cup IgnoredSignals
    /\ delivered' = delivered \cup {sig}
    /\ stop' = IF sig \in Relayed(signals) /\ Len(stop) < StopCap(signals)
               THEN Append(stop, sig)
               ELSE stop
    /\ UNCHANGED <<Timeout, Signals, keepers, manSig, pc, i, err, ctxs, notified,
                   now, tpc, woke, waits, trace, got>>

\* A second passes while a Shutdown runs (the steps of Wait itself take no
\* time). Time is observed through the contexts only.
Tick ==
    /\ now < MaxTime
    /\ pc = "shutdown"
    /\ \E n \in 1..Len(ctxs) : ~CtxDone(ctxs[n])
    /\ now' = now + 1
    /\ UNCHANGED <<Timeout, Signals, keepers, manSig, pc, i, err, ctxs, stop,
                   notified, tpc, delivered, woke, waits, trace, got>>

Next ==
    \/ \E a \in AddMenu : Add(a.srv, a.opts)
    \/ WaitBegin
    \/ WakeSignal
    \/ WakeTrigger
    \/ LogReceived
    \/ DrainBegin
    \/ \E e \in Errors : ShutdownReturn(e)
    \/ DrainOutcome
    \/ WaitReturn
    \/ \E t \in Trig : TriggerCall(t)
    \/ \E t \in Trig : TriggerSend(t)
    \/ \E sig \in OsSignals : Deliver(sig)
    \/ Tick

Spec == Init /\ [][Next]_vars

\* The steps of Wait after the call, up to its return, apart from the
\* server's Shutdown: Wait's goroutine takes them whenever it can.
WaitStep ==
    \/ WakeSignal
    \/ WakeTrigger
    \/ LogReceived
    \/ DrainBegin
    \/ DrainOutcome
    \/ WaitReturn

\* The scheduler runs every goroutine that can take a step. Nothing makes the
\* program call Add, Wait or Trigger, the system deliver a signal, or a
\* server's Shutdown return.
LiveSpec ==
    /\ Spec
    /\ WF_vars(WaitStep)
    /\ \A t \in Trig : WF_vars(TriggerSend(t))

(***************************************************************************)
(* Reading the trace.                                                      *)
(***************************************************************************)
Positions == 1..Len(trace)
Invokes(k) == {n \in Positions : trace[n].kind = "invoke" /\ trace[n].k = k}
Returns(k) == {n \in Positions : trace[n].kind = "return" /\ trace[n].k = k}
IsLine(ev) == ev.kind \in {"info", "error"}
\* The lines logged for keeper k, in order.
LinesOf(k) == SelectSeq(trace, LAMBDA ev : IsLine(ev) /\ ev.k = k)
\* The last Wait call has returned; it ranged over keepers 1..Drained.
Returned == pc = "main" /\ trace # <<>> /\ trace[Len(trace)].kind = "end"
Drained == trace[Len(trace)].k
\* Keeper k's Shutdown has returned and its outcome has been logged.
OutcomeLogged(k) == Returns(k) # {} /\ ~(pc = "returned" /\ RangeOrder(i) = k)

(***************************************************************************)
(* C1. The drain is sequential and in the order of Add: for keepers        *)
(* a < b, Shutdown of b is invoked only after Shutdown of a has returned   *)
(* and a's outcome line has been logged; and no Shutdown is invoked while  *)
(* another one is running.                                                 *)
(***************************************************************************)
C1_DrainInOrder ==
    \A n \in Positions :
        trace[n].kind = "invoke" =>
            /\ \A a \in 1..(trace[n].k - 1) :
                  \E r, o \in 1..(n - 1) :
                      /\ r < o
                      /\ trace[r].kind = "return" /\ trace[r].k = a
                      /\ IsLine(trace[o]) /\ trace[o].k = a
            /\ \A m \in 1..(n - 1) :
                  trace[m].kind = "invoke" =>
                      /\ trace[m].k < trace[n].k
                      /\ \E r \in (m + 1)..(n - 1) :
                            trace[r].kind = "return" /\ trace[r].k = trace[m].k

\* The second keeper's Shutdown is running after the first one failed.
C1_Witness ==
    /\ pc = "shutdown"
    /\ Invokes(2) # {}
    /\ \E r \in Returns(1) : trace[r].msg = errTest.id

(***************************************************************************)
(* C2. When Wait has returned, every keeper it ranged over got exactly one *)
(* Shutdown call, whatever the earlier keepers returned, and every server  *)
(* got as many calls as there are keepers holding it.                      *)
(***************************************************************************)
C2_OneShutdownPerEntry ==
    Returned =>
        /\ \A k \in 1..Drained : Cardinality(Invokes(k)) = 1
        /\ \A srv \in Servers :
              Cardinality({n \in Positions : trace[n].kind = "invoke" /\ trace[n].msg = srv})
                = Cardinality({k \in 1..Drained : keepers[k].srv = srv})

\* One server added twice, its first Shutdown timed out, Wait has returned.
C2_Witness ==
    /\ Returned
    /\ Drained = 2
    /\ keepers[1].srv = keepers[2].srv
    /\ \E r \in Returns(1) : trace[r].msg = DeadlineExceeded.id

(***************************************************************************)
(* C3. When Wait has returned, Shutdown has been invoked and has returned  *)
(* for every keeper registered when Wait was called.                       *)
(***************************************************************************)
\* Keepers are added by the goroutine that calls Wait: those added after the
\* last Wait returned are the ones beyond Drained.
C3_ReturnsAfterAll ==
    Returned =>
        \A k \in 1..Drained :
              /\ Invokes(k) # {}
              /\ \A n \in Invokes(k) : \E r \in Returns(k) : n < r

\* Wait has returned after draining two keepers.
C3_Witness == Returned /\ Drained = 2 /\ Len(keepers) = 2

(***************************************************************************)
(* C4. Until a wake event has happened (a signal of the configured set     *)
(* was delivered, or Trigger was called), a Wait in progress is blocked    *)
(* in its select, nothing has been logged and no Shutdown was invoked.     *)
(***************************************************************************)
SignalHappened == delivered \cap Range(signals) # {} \/ woke \in Range(signals)
TriggerHappened == \E t \in Trig : tpc[t] # "idle"

TriggerPending == manSig.buf # <<>>
DrainStarted == pc = "shutdown" \/ Returned

C5_TriggerBeforeWait ==
    /\ [][pc = "main" /\ TriggerPending /\ pc' = "select" => TriggerPending']_vars
    /\ (pc = "select" /\ TriggerPending /\ delivered = {}) ~> (woke # "none" /\ DrainStarted)

\* Wait was woken by a trigger, no signal was delivered, and has drained.
C5_Witness ==
    /\ Returned
    /\ woke = "trigger"
    /\ Drained = 2
    /\ \A t \in Trig : tpc[t] \in {"idle", "done"}
    /\ Cardinality({t \in Trig : tpc[t] = "done"}) = 1

(***************************************************************************)
(* C6. Trigger never blocks: a call that has got the channel can always    *)
(* complete its send, also when an earlier trigger is still in the channel *)
(* and no Wait is there to receive it.                                     *)
(***************************************************************************)
C6_TriggerNeverBlocks ==
    \A t \in Trig : tpc[t] = "send" => ENABLED TriggerSend(t)

(***************************************************************************)
(* C7. Once Wait is past the select and its log call, the trace of that    *)
(* Wait holds "finish: shutdown signal received" exactly once, whichever   *)
(* case of the select ran, and before every line about a keeper and every  *)
(* Shutdown call.                                                          *)
(***************************************************************************)
ReceivedAt == {n \in Positions : trace[n].kind = "info" /\ trace[n].msg = MsgReceived}

C7_ReceivedOnceFirst ==
    LET at == ReceivedAt
    IN /\ Cardinality(at) <= 1
       /\ pc \in {"loop", "shutdown", "returned"} \/ Returned => Cardinality(at) = 1
       /\ pc \in {"select", "woken"} => at = {}
       /\ \A n \in Positions :
             trace[n].kind = "invoke" \/ (IsLine(trace[n]) /\ trace[n].k # 0)
               => \E m \in at : m < n

\* Woken by the trigger, the second keeper's Shutdown is running.
C7_Witness ==
    /\ woke = "trigger"
    /\ pc = "shutdown"
    /\ Invokes(2) # {}
    /\ trace[1] = Infof(0, MsgReceived)

(***************************************************************************)
(* The lines of a keeper, by how its Shutdown went.                        *)
(***************************************************************************)
\* The error value with the given id.
ErrorOf(id) == CHOOSE e \in Errors : e.id = id
\* Keeper k's Shutdown has returned e, with its context done or not, and the
\* outcome has been logged.
Settled(k, ids, lates) ==
    /\ OutcomeLogged(k)
    /\ \E r \in Returns(k) : trace[r].msg \in ids /\ trace[r].late \in lates
AllIds == {e.id : e \in Errors}

(***************************************************************************)
(* C8. A keeper whose Shutdown completes (returns nil) before its deadline *)
(* has exactly two lines, both informational: "finish: shutting down       *)
(* <name> ..." and then "finish: <name> closed".                           *)
(***************************************************************************)
C8_ClosedLines ==
    \A k \in 1..Len(keepers) :
        Settled(k, {NoError.id}, {FALSE}) =>
            LinesOf(k) = <<Infof(k, MsgShuttingDown(keepers[k].name)),
                           Infof(k, MsgClosed(keepers[k].name))>>

\* The run of Test: one unnamed keeper, closed in time.
C8_Witness ==
    /\ Returned
    /\ Drained = 1
    /\ Settled(1, {NoError.id}, {FALSE})
    /\ LinesOf(1) = <<[kind |-> "info", k |-> 1, msg |-> "finish: shutting down server ...", late |-> FALSE],
                      [kind |-> "info", k |-> 1, msg |-> "finish: server closed", late |-> FALSE]>>

(***************************************************************************)
(* C9, as stated. A keeper whose Shutdown has not completed when its       *)
(* deadline passes has exactly the lines "finish: shutting down <name>     *)
(* ..." (informational) and "finish: shutdown timeout for <name>" (error), *)
(* whatever its Shutdown returns after the deadline.                       *)
(***************************************************************************)
C9_TimeoutLinesWhateverReturned ==
    \A k \in 1..Len(keepers) :
        Settled(k, AllIds, {TRUE}) =>
            LinesOf(k) = <<Infof(k, MsgShuttingDown(keepers[k].name)),
                           Errorf(k, MsgTimeout(keepers[k].name))>>

(***************************************************************************)
(* C9, amended. A keeper whose Shutdown has not completed when its         *)
(* deadline passes and then returns the deadline-exceeded error has        *)
(* exactly the lines "finish: shutting down <name> ..." (informational)    *)
(* and "finish: shutdown timeout for <name>" (error).                      *)
(***************************************************************************)
C9_TimeoutLines ==
    \A k \in 1..Len(keepers) :
        Settled(k, {DeadlineExceeded.id}, {TRUE}) =>
            LinesOf(k) = <<Infof(k, MsgShuttingDown(keepers[k].name)),
                           Errorf(k, MsgTimeout(keepers[k].name))>>

\* A keeper with a timeout of one second returned the deadline error late.
C9_Witness ==
    /\ Returned
    /\ \E k \in 1..Drained :
          /\ Settled(k, {DeadlineExceeded.id}, {TRUE})
          /\ LinesOf(k) = <<[kind |-> "info", k |-> k, msg |-> "finish: shutting down public ...", late |-> FALSE],
                            [kind |-> "error", k |-> k, msg |-> "finish: shutdown timeout for public", late |-> FALSE]>>

(***************************************************************************)
(* C10. A keeper whose Shutdown returns an error other than the deadline   *)
(* error has, after its "shutting down" line, exactly one more line: the   *)
(* error "finish: error while shutting down <name>: <text of the error>";  *)
(* no "closed" and no "shutdown timeout" line.                             *)
(***************************************************************************)
C10_ErrorLines ==
    \A k \in 1..Len(keepers) :
        \A id \in AllIds \ {NoError.id, DeadlineExceeded.id} :
            Settled(k, {id}, BOOLEAN) =>
                LinesOf(k) = <<Infof(k, MsgShuttingDown(keepers[k].name)),
                               Errorf(k, MsgError(keepers[k].name, ErrorOf(id)))>>

\* The run of TestServerError: one keeper, its Shutdown returned errTest.
C10_Witness ==
    /\ Returned
    /\ Drained = 1
    /\ Settled(1, {errTest.id}, BOOLEAN)
    /\ LinesOf(1) = <<[kind |-> "info", k |-> 1, msg |-> "finish: shutting down server ...", late |-> FALSE],
                      [kind |-> "error", k |-> 1, msg |-> "finish: error while shutting down server: test error", late |-> FALSE]>>

(***************************************************************************)
(* A program that calls Wait again after Wait returned, adding servers in  *)
(* between.  Its Wait calls are woken by Trigger; no signal is sent.       *)
(***************************************************************************)
MaxNameWaits == 2   \* Wait calls of this program

WaitAgain == waits < MaxNameWaits /\ WaitCall

NameNext ==
    \/ \E a \in AddMenu : Add(a.srv, a.opts)
    \/ WaitAgain
    \/ WakeTrigger
    \/ LogReceived
    \/ DrainBegin
    \/ \E e \in Errors : ShutdownReturn(e)
    \/ DrainOutcome
    \/ WaitReturn
    \/ \E t \in Trig : TriggerCall(t)
    \/ \E t \in Trig : TriggerSend(t)

NameSpec == Init /\ [][NameNext]_vars

\* The name the Add call of keeper k gave it ("": none). The program adds
\* each server with its own options, so the server tells the call.
GivenName(k) ==
    LET a == CHOOSE a \in AddMenu : a.srv = keepers[k].srv
    IN ApplyOptions(a.opts, [srv |-> a.srv, name |-> "", timeout |-> timeout]).keeper.name
\* The number of keepers the running Wait, or else the last one, ranges over.
Ranged == IF pc # "main" THEN Len(keepers) ELSE IF Returned THEN Drained ELSE 0
\* The lines Wait can log for keeper k under the name nm.
LinesNamed(k, nm) ==
    {Infof(k, MsgShuttingDown(nm)), Infof(k, MsgClosed(nm)), Errorf(k, MsgTimeout(nm))}
        \cup {Errorf(k, MsgError(nm, e)) : e \in Errors}

(***************************************************************************)
(* C11. When a Wait ranges over exactly one keeper and that keeper was     *)
(* given no name, its name is "server" from the start of that Wait on, and *)
(* every line logged for it carries the name "server".                     *)
(***************************************************************************)
C11_SingleIsServer ==
    Ranged = 1 /\ GivenName(1) = "" =>
        /\ keepers[1].name = "server"
        /\ \A n \in Positions :
              IsLine(trace[n]) /\ trace[n].k = 1 => trace[n] \in LinesNamed(1, "server")

\* The second Wait over one unnamed keeper has returned after an error.
C11_Witness ==
    /\ Returned
    /\ waits = 2
    /\ Drained = 1
    /\ GivenName(1) = ""
    /\ LinesOf(1) = <<[kind |-> "info", k |-> 1, msg |-> "finish: shutting down server ...", late |-> FALSE],
                      [kind |-> "error", k |-> 1, msg |-> "finish: error while shutting down server: test error", late |-> FALSE]>>

(***************************************************************************)
(* C12, as stated. When a Wait ranges over more than one keeper, every     *)
(* keeper that was given no name is named "server #i", i its 1-based       *)
(* position among all keepers, and every keeper that was given a name has  *)
(* that name.                                                              *)
(***************************************************************************)
C12_NumberedWhenGivenNoName ==
    Ranged > 1 =>
        \A k \in 1..Ranged :
            keepers[k].name = IF GivenName(k) = "" THEN ServerNum(k) ELSE GivenName(k)

(***************************************************************************)
(* C12, amended. When Wait is called with more than one keeper, every      *)
(* keeper whose name is still empty at that moment is named "server #i",   *)
(* i its 1-based position among all keepers, and every keeper whose name   *)
(* is not empty (given by WithName, or set by an earlier Wait) keeps it.   *)
(* Apart from the Wait called with a single unnamed keeper (C11), no       *)
(* other step changes the name of a keeper.                                *)
(***************************************************************************)
C12_NumberedWhenStillEmpty ==
    [][/\ Len(keepers') >= Len(keepers)
       /\ \A k \in 1..Len(keepers) :
             keepers'[k].name =
                IF pc = "main" /\ pc' = "select" /\ Len(keepers) > 1 /\ keepers[k].name = ""
                THEN ServerNum(k)
                ELSE IF pc = "main" /\ pc' = "select" /\ Len(keepers) = 1 /\ keepers[k].name = ""
                     THEN "server"
                     ELSE keepers[k].name]_vars

\* The lists of TestUpdateNames: a named keeper, then an unnamed one, after
\* the names were finalized.
C12_Witness ==
    /\ pc = "select"
    /\ Len(keepers) = 2
    /\ GivenName(1) = "public" /\ GivenName(2) = ""
    /\ keepers[1].name = "public" /\ keepers[2].name = "server #2"

(***************************************************************************)
(* A program that registers servers with any options and sets the          *)
(* Finisher's Timeout field between the calls.  A panic of Add is          *)
(* recovered, as in TestOptionError, and the program goes on.              *)
(***************************************************************************)
MaxPanics == 1      \* Add calls that panic

\* Durations the program gives: to the Timeout field (TestGlobalTimeout: 21 s)
\* and to WithTimeout (README: 5 s). time.Duration is a signed integer, and
\* neither takes only positive values.
TimeoutSettings == {-1, 0, 21}
Opts == {WithName("public"), WithName("internal"),
         WithTimeout(5), WithTimeout(0), WithTimeout(-1), testOpt}
OptLists == {<<>>} \cup {<<o>> : o \in Opts} \cup {<<o, q>> : o \in Opts, q \in Opts}
AddArgs == {[srv |-> "srvA", opts |-> opts] : opts \in OptLists}

\* The position of the first option of opts that fails, 0 if none does.
FirstFailing(opts) ==
    LET F == {n \in 1..Len(opts) : opts[n].opt = "testOpt"}
    IN IF F = {} THEN 0 ELSE CHOOSE n \in F : \A m \in F : n <= m
\* Whether opts holds an option of the given kind, and the last one of them.
HasOpt(opts, kind) == \E n \in 1..Len(opts) : opts[n].opt = kind
LastOpt(opts, kind) ==
    LET S == {n \in 1..Len(opts) : opts[n].opt = kind}
    IN opts[CHOOSE n \in S : \A m \in S : m <= n]

Panics == Cardinality({n \in Positions : trace[n].kind = "panic"})

\* One Add call of the program.
AddCall(a) ==
    /\ FirstFailing(a.opts) # 0 => Panics < MaxPanics
    /\ Add(a.srv, a.opts)

\* f.Timeout = d, by the goroutine that owns the Finisher.
SetTimeout(d) ==
    /\ pc = "main"
    /\ Timeout # d
    /\ Timeout' = d
    /\ UNCHANGED <<Signals, keepers, manSig, pc, i, err, ctxs, stop, notified,
                   now, tpc, delivered, woke, waits, trace, got>>

AddNext ==
    \/ \E a \in AddArgs : AddCall(a)
    \/ \E d \in TimeoutSettings : SetTimeout(d)

AddSpec == Init /\ [][AddNext]_vars

(***************************************************************************)
(* C13. An Add call one of whose options fails panics with that failure:   *)
(* no keeper is appended, the list of keepers is what it was before the    *)
(* call, and the options after the failing one have not been applied to    *)
(* the keeper the call was building.                                       *)
(***************************************************************************)
C13_OptionErrorAborts ==
    [][\A a \in AddArgs :
          LET p == FirstFailing(a.opts)
              keeper == [srv |-> a.srv, name |-> "", timeout |-> timeout]
          IN Add(a.srv, a.opts) /\ p # 0 =>
                /\ keepers' = keepers
                /\ trace' = Append(trace, Event("panic", 0, errTest.text, FALSE))
                /\ ApplyOptions(a.opts, keeper).err = errTest
                /\ ApplyOptions(a.opts, keeper).keeper
                      = ApplyOptions(SubSeq(a.opts, 1, p - 1), keeper).keeper]_vars

\* An Add call has panicked after two keepers were registered, one of them
\* with the Timeout field set.
C13_Witness ==
    /\ Panics = 1
    /\ trace[Len(trace)] = [kind |-> "panic", k |-> 0, msg |-> "test error", late |-> FALSE]
    /\ Len(keepers) = 2
    /\ keepers[2].timeout = 21

(***************************************************************************)
(* C14. The keeper an Add call commits has the timeout the call's          *)
(* WithTimeout gave, if the call has one; else the Finisher's Timeout at   *)
(* the moment of the call, if it is set; else DefaultTimeout.  No later    *)
(* step, a change of the Timeout field included, alters the timeout of a   *)
(* keeper already committed.                                               *)
(***************************************************************************)
C14_TimeoutOfEntry ==
    [][/\ \A a \in AddArgs :
             Add(a.srv, a.opts) /\ FirstFailing(a.opts) = 0 =>
                /\ Len(keepers') = Len(keepers) + 1
                /\ keepers'[Len(keepers')].timeout =
                      IF HasOpt(a.opts, "WithTimeout")
                      THEN LastOpt(a.opts, "WithTimeout").timeout
                      ELSE IF Timeout # 0 THEN Timeout ELSE DefaultTimeout
       /\ \A k \in 1..Len(keepers) :
             Len(keepers') >= k /\ keepers'[k].timeout = keepers[k].timeout]_vars

\* Two keepers: one added with Timeout unset, one added with Timeout set to
\* 21 s as in TestGlobalTimeout; the field has been changed again since.
C14_Witness ==
    /\ Len(keepers) = 2
    /\ keepers[1].timeout = DefaultTimeout
    /\ keepers[2].timeout = 21
    /\ Timeout = -1

(***************************************************************************)
(* C15. Every committed keeper has a strictly positive timeout, whatever   *)
(* the Timeout field and the arguments of WithTimeout were.                *)
(***************************************************************************)
C15_TimeoutPositive == \A k \in 1..Len(keepers) : keepers[k].timeout > 0

(***************************************************************************)
(* C16. The options of one Add call are applied in the order given: the    *)
(* committed keeper has the name of the call's last WithName and the       *)
(* timeout of its last WithTimeout; a field no option of the call sets     *)
(* keeps the value Add gave it (the empty name, the Finisher's timeout),   *)
(* and the server is the one passed.                                       *)
(***************************************************************************)
C16_LaterOptionWins ==
    [][\A a \in AddArgs :
          Add(a.srv, a.opts) /\ FirstFailing(a.opts) = 0 =>
             /\ Len(keepers') = Len(keepers) + 1
             /\ LET keeper == keepers'[Len(keepers')]
                IN /\ keeper.srv = a.srv
                   /\ keeper.name = IF HasOpt(a.opts, "WithName")
                                    THEN LastOpt(a.opts, "WithName").name
                                    ELSE ""
                   /\ keeper.timeout = IF HasOpt(a.opts, "WithTimeout")
                                       THEN LastOpt(a.opts, "WithTimeout").timeout
                                       ELSE timeout]_vars

\* A keeper named by a WithName while the Timeout field was 21 s, and one
\* whose name and timeout both come from its options.
C16_Witness ==
    /\ Len(keepers) = 2
    /\ keepers[1] = [srv |-> "srvA", name |-> "internal", timeout |-> 21]
    /\ keepers[2] = [srv |-> "srvA", name |-> "public", timeout |-> 5]
    /\ Timeout = 0

(***************************************************************************)
(* Programs that make their Finisher with a struct literal that sets the   *)
(* Signals field, or leaves it nil.  Their servers close without error.    *)
(***************************************************************************)
\* nil; the signal of TestCustomSignal; two signals, the interrupt signal
\* among them; an empty, non-nil slice.
SignalsChoices == {[isNil |-> TRUE, elems |-> <<>>],
                   [isNil |-> FALSE, elems |-> <<"SIGUSR1">>],
                   [isNil |-> FALSE, elems |-> <<"SIGUSR1", "SIGINT">>],
                   [isNil |-> FALSE, elems |-> <<>>]}

SigInit ==
    /\ Timeout = 0
    /\ Signals \in SignalsChoices
    /\ keepers = <<>>
    /\ manSig = [made |-> FALSE, buf |-> <<>>, id |-> 0]
    /\ pc = "main"
    /\ i = 0
    /\ err = NoError
    /\ ctxs = <<>>
    /\ stop = <<>>
    /\ notified = {}
    /\ now = 0
    /\ tpc = [t \in Trig |-> "idle"]
    /\ delivered = {}
    /\ woke = "none"
    /\ waits = 0
    /\ trace = <<>>
    /\ got = [p \in Procs |-> 0]

SigNext ==
    \/ Add("srvA", <<>>)
    \/ WaitBegin
    \/ WakeSignal
    \/ WakeTrigger
    \/ LogReceived
    \/ DrainBegin
    \/ ShutdownReturn(NoError)
    \/ DrainOutcome
    \/ WaitReturn
    \/ \E t \in Trig : TriggerCall(t)
    \/ \E t \in Trig : TriggerSend(t)
    \/ \E sig \in OsSignals : Deliver(sig)

SigSpec == SigInit /\ [][SigNext]_vars

\* The signal set the Finisher is configured with.
Configured == IF Signals.isNil THEN {"SIGINT", "SIGTERM"} ELSE Range(Signals.elems)
StdoutAt == {n \in Positions : trace[n].kind = "stdout"}

(***************************************************************************)
(* C17. Wait has written to standard output if and only if its select took *)
(* the signal case with the interrupt signal; what it wrote is one bare    *)
(* newline, before "finish: shutdown signal received".  A wake by          *)
(* another signal or by Trigger writes nothing.                            *)
(***************************************************************************)
C17_NewlineIffSigint ==
    /\ StdoutAt # {} <=> woke = "SIGINT"
    /\ \A n \in StdoutAt :
          /\ n = 1
          /\ trace[n].msg = "\n"
          /\ \A m \in ReceivedAt : n < m

\* The run of TestSigIntPrint, with SIGINT in a custom signal set.
C17_Witness ==
    /\ Returned
    /\ woke = "SIGINT"
    /\ ~Signals.isNil
    /\ Len(trace) = 7
    /\ trace[1] = [kind |-> "stdout", k |-> 0, msg |-> "\n", late |-> FALSE]
    /\ trace[2] = [kind |-> "info", k |-> 0, msg |-> "finish: shutdown signal received", late |-> FALSE]

(***************************************************************************)
(* C18. Wait is woken by a signal only if the signal is in the configured  *)
(* set (the Signals field when set, else SIGINT and SIGTERM): the signal   *)
(* its select received is in that set, and while only signals outside the  *)
(* set have been delivered, nothing is in the stop channel to wake it.     *)
(***************************************************************************)
C18_WokenByConfiguredOnly ==
    /\ woke \notin {"none", "trigger"} => woke \in Configured
    /\ pc = "select" /\ delivered \cap Configured = {} => stop = <<>>

(***************************************************************************)
(* A program that is shut down by signals only, with servers whose         *)
(* Shutdown always returns in the end: in time, late, or with an error.    *)
(***************************************************************************)
DrainNext ==
    \/ \E a \in AddMenu : Add(a.srv, a.opts)
    \/ WaitBegin
    \/ WakeSignal
    \/ LogReceived
    \/ DrainBegin
    \/ \E e \in Errors : ShutdownReturn(e)
    \/ DrainOutcome
    \/ WaitReturn
    \/ \E sig \in OsSignals : Deliver(sig)
    \/ Tick

\* The same program, its servers' Shutdown free never to return.
DrainSpec == Init /\ [][DrainNext]_vars /\ WF_vars(WaitStep)

DrainLiveSpec ==
    /\ Init /\ [][DrainNext]_vars
    /\ WF_vars(WaitStep)
    /\ WF_vars(\E e \in Errors : ShutdownReturn(e))

\* A Wait is in progress and a wake event has happened: its select is over,
\* or a signal or a trigger is in the channel it is blocked on.
WakeHappened == pc # "main" /\ (pc = "select" => stop # <<>> \/ manSig.buf # <<>>)

(***************************************************************************)
(* C19. Once a wake event has happened, Wait returns in the end if every   *)
(* Shutdown returns, however late.  And while a Shutdown has not returned, *)
(* Wait stays in it: it logs nothing, calls no other Shutdown and does not *)
(* return; the only step it takes next is that Shutdown's return.          *)
(***************************************************************************)
C19_ReturnsIfShutdownsReturn ==
    /\ WakeHappened ~> Returned
    /\ [][pc = "shutdown" =>
             \/ pc' = "shutdown" /\ trace' = trace /\ i' = i
             \/ /\ pc' = "returned"
                /\ i' = i
                /\ Len(trace') = Len(trace) + 1
                /\ SubSeq(trace', 1, Len(trace)) = trace
                /\ trace'[Len(trace')].kind = "return"
                /\ trace'[Len(trace')].k = RangeOrder(i)]_vars

\* The run of TestSlowServer after a keeper that failed: the second keeper,
\* with a timeout of one second, returned the deadline error after it, and
\* Wait has returned.
C19_Witness ==
    /\ Returned
    /\ Drained = 2
    /\ keepers[2].timeout = 1
    /\ Settled(1, {errTest.id}, BOOLEAN)
    /\ Settled(2, {DeadlineExceeded.id}, {TRUE})

(***************************************************************************)
(* C20. Name finalization is idempotent: on every list of keepers the      *)
(* program can hold (empty, named, unnamed, finalized by an earlier Wait,  *)
(* or a mix), running updateNames on the finalized list changes nothing.   *)
(***************************************************************************)
C20_NamingIdempotent == updateNames(updateNames(keepers)) = updateNames(keepers)

\* The second Wait has run updateNames on a list whose first keeper the
\* first Wait had named when it was alone; before that call the list was
\* half finalized.
C20_Witness ==
    /\ waits = 2
    /\ pc = "select"
    /\ Len(keepers) = 2
    /\ keepers[1].name = "server"
    /\ keepers[2].name = "server #2"
    /\ updateNames(keepers) = keepers

(***************************************************************************)
(* The contexts of the drain.                                              *)
(***************************************************************************)
\* The contexts made so far in the running Wait that are not released: not
\* canceled and not expired, their timer still pending.
Unreleased == {n \in 1..Len(ctxs) : ~CtxDone(ctxs[n])}

(***************************************************************************)
(* C21. The context of a keeper is released when the keeper's step of the  *)
(* loop is over: once the loop is past keeper n, the context of keeper n   *)
(* is released, so at most one context is unreleased at any time.          *)
(***************************************************************************)
C21_ScopeReleasedAtStepExit ==
    /\ \A n \in 1..Len(ctxs) : n < i \/ pc = "loop" => CtxDone(ctxs[n])
    /\ Cardinality(Unreleased) <= 1

(***************************************************************************)
(* C22. Each keeper has a context of its own: it is made when the keeper's *)
(* step begins, its deadline is that moment plus the keeper's timeout,     *)
(* whatever time the earlier keepers took, and it is not expired then if   *)
(* the timeout is positive.  As long as Wait runs, no step changes or      *)
(* cancels a context made before, and the expiry of one context leaves     *)
(* the others as they are.                                                 *)
(***************************************************************************)
C22_OwnDeadline ==
    [][/\ pc = "loop" /\ pc' = "shutdown" =>
             /\ ctxs' = Append(ctxs, [deadline |-> now + keepers[i].timeout,
                                      canceled |-> FALSE])
             /\ keepers[i].timeout > 0 => Len(ctxs') \in Unreleased'
       /\ pc' # "main" =>
             \A n \in 1..Len(ctxs) : Len(ctxs') >= n /\ ctxs'[n] = ctxs[n]]_vars

\* The first keeper's deadline expired a second after the wake event; the
\* second keeper's Shutdown, called after that with a timeout of one
\* second, runs with a context that is not expired.
C22_Witness ==
    /\ pc = "shutdown"
    /\ i = 2
    /\ now = 1
    /\ keepers[1].timeout = 1 /\ keepers[2].timeout = 1
    /\ CtxDone(ctxs[1])
    /\ ctxs[2].deadline = 2
    /\ Unreleased = {2}

(***************************************************************************)
(* The race of the two wake sources.  From Notify (line 134) until the     *)
(* select (line 137) takes a case, pc = "select": a trigger sent before    *)
(* Wait was called waits in manSig, a signal that arrives in this window   *)
(* waits in stop, and a select with two cases ready takes either.          *)
(***************************************************************************)
RaceSpec == Init /\ [][SigNext]_vars /\ WF_vars(WaitStep)

\* The Trigger of goroutine 1 has returned before the first Wait is called.
TriggeredBeforeWait == waits = 0 /\ tpc[1] = "done" /\ TriggerPending

(***************************************************************************)
(* C23. The wake source that occurred first wins: when Trigger returned    *)
(* before the first Wait was called, and so before any signal could be     *)
(* relayed to that Wait, the Wait wakes through the trigger, whatever      *)
(* signal arrives later, and writes no newline to the standard output.     *)
(***************************************************************************)
C23_FirstSourceWins ==
    [](TriggeredBeforeWait =>
         [](waits = 1 /\ woke # "none" => woke = "trigger" /\ StdoutAt = {}))

(***************************************************************************)
(* getManSig step by step (lines 92-99), for goroutines that call it at    *)
(* the same time.  The positions of a goroutine inside getManSig are kept  *)
(* in pc (goroutine 0, Wait) and tpc (the Triggers): "lock" (before        *)
(* f.mutex.Lock()), "check" (before the nil test), "make" (before the      *)
(* assignment of the new channel), "read" (before the operand of return    *)
(* is read), "unlock" (before the deferred Unlock).                        *)
(***************************************************************************)
At(p) == IF p = 0 THEN pc ELSE tpc[p]

Goto(p, pos) ==
    IF p = 0 THEN pc' = pos /\ UNCHANGED tpc
             ELSE tpc' = [tpc EXCEPT ![p] = pos] /\ UNCHANGED pc

\* The goroutines between Lock and Unlock.
Holders == {p \in Procs : At(p) \in {"check", "make", "read", "unlock"}}

\* f.mutex.Lock() returns when nobody holds the mutex.
\* (variant with a plausible slip: getManSig does not lock)
MutexFreeAlways == TRUE
MutexFree == Holders = {}

\* Lines 130-134 of Wait; the select then evaluates getManSig().
WaitEnter ==
    /\ waits < MaxWaits
    /\ pc = "main"
    /\ keepers' = updateNames(keepers)
    /\ stop' = <<>>
    /\ notified' = notified \cup Relayed(signals)
    /\ waits' = waits + 1
    /\ trace' = <<>>
    /\ woke' = "none"
    /\ pc' = "lock"
    /\ UNCHANGED <<Timeout, Signals, manSig, i, err, ctxs, now, tpc, delivered,
                   got>>

\* Trigger calls getManSig.
TriggerEnter(t) ==
    /\ tpc[t] = "idle"
    /\ \A u \in Trig : u < t => tpc[u] # "idle"
    /\ tpc' = [tpc EXCEPT ![t] = "lock"]
    /\ UNCHANGED <<Timeout, Signals, keepers, manSig, pc, i, err, ctxs, stop,
                   notified, now, delivered, woke, waits, trace, got>>

\* Line 93.
Lock(p) ==
    /\ At(p) = "lock"
    /\ MutexFree
    /\ Goto(p, "check")
    /\ UNCHANGED <<Timeout, Signals, keepers, manSig, i, err, ctxs, stop,
                   notified, now, delivered, woke, waits, trace, got>>

\* Line 95: if f.manSig == nil.
Check(p) ==
    /\ At(p) = "check"
    /\ Goto(p, IF manSig.made THEN "read" ELSE "make")
    /\ UNCHANGED <<Timeout, Signals, keepers, manSig, i, err, ctxs, stop,
                   notified, now, delivered, woke, waits, trace, got>>

\* Line 96: f.manSig = make(chan interface{}, 1), a new and empty channel.
Make(p) ==
    /\ At(p) = "make"
    /\ manSig' = [made |-> TRUE, buf |-> <<>>, id |-> manSig.id + 1]
    /\ Goto(p, "read")
    /\ UNCHANGED <<Timeout, Signals, keepers, i, err, ctxs, stop,
                   notified, now, delivered, woke, waits, trace, got>>

\* Line 98: the operand of return is f.manSig as it is now.
Read(p) ==
    /\ At(p) = "read"
    /\ got' = [got EXCEPT ![p] = manSig.id]
    /\ Goto(p, "unlock")
    /\ UNCHANGED <<Timeout, Signals, keepers, manSig, i, err, ctxs, stop,
                   notified, now, delivered, woke, waits, trace>>

\* Line 94, deferred: Unlock, and getManSig returns to the select of Wait or
\* to the send of Trigger.
Unlock(p) ==
    /\ At(p) = "unlock"
    /\ Goto(p, IF p = 0 THEN "select" ELSE "send")
    /\ UNCHANGED <<Timeout, Signals, keepers, manSig, i, err, ctxs, stop,
                   notified, now, delivered, woke, waits, trace, got>>

MutexNext ==
    \/ Add("srvA", <<>>)
    \/ WaitEnter
    \/ \E t \in Trig : TriggerEnter(t)
    \/ \E p \in Procs : Lock(p)
    \/ \E p \in Procs : Check(p)
    \/ \E p \in Procs : Make(p)
    \/ \E p \in Procs : Read(p)
    \/ \E p \in Procs : Unlock(p)
    \/ \E t \in Trig : TriggerSend(t)
    \/ WakeTrigger
    \/ LogReceived
    \/ DrainBegin
    \/ ShutdownReturn(NoError)
    \/ DrainOutcome
    \/ WaitReturn

MutexSpec == Init /\ [][MutexNext]_vars

(***************************************************************************)
(* C24. The manual-signal channel is made once, under the mutex: however   *)
(* the first calls of Trigger and Wait interleave, at most one goroutine   *)
(* is between Lock and Unlock, make has run at most once, and every        *)
(* goroutine that got a channel from getManSig got the one f.manSig holds, *)
(* which is the one Wait receives from.                                    *)
(***************************************************************************)
C24_ChannelMadeOnce ==
    /\ Cardinality(Holders) <= 1
    /\ manSig.id = (IF manSig.made THEN 1 ELSE 0)
    /\ \A p \in Procs : got[p] \in {0, manSig.id}
    /\ \A t \in Trig : tpc[t] \in {"send", "done"} => got[t] = manSig.id
    /\ pc \in {"select", "woken"} => got[0] = manSig.id

\* The first Trigger made the channel and is about to unlock, while Wait
\* and the second Trigger, which were called meanwhile, wait for the mutex.
C24_Witness ==
    /\ tpc[1] = "unlock"
    /\ got[1] = 1
    /\ pc = "lock"
    /\ tpc[2] = "lock"
    /\ got[0] = 0 /\ got[2] = 0

(***************************************************************************)
(* The values a Shutdown may return, among them an error that wraps        *)
(* context.DeadlineExceeded: it prints the same text and is another value. *)
(***************************************************************************)
errWrapped == [id |-> "wrapped", text |-> "context deadline exceeded"]
ReturnValues == Errors \cup {errWrapped}
ValueOf(id) == CHOOSE e \in ReturnValues : e.id = id

OutcomeNext ==
    \/ \E a \in AddMenu : Add(a.srv, a.opts)
    \/ WaitBegin
    \/ WakeSignal
    \/ LogReceived
    \/ DrainBegin
    \/ \E e \in ReturnValues : ShutdownReturn(e)
    \/ DrainOutcome
    \/ WaitReturn
    \/ \E sig \in OsSignals : Deliver(sig)
    \/ Tick

OutcomeSpec == Init /\ [][OutcomeNext]_vars

\* The outcome line that belongs to the value with this id.
LineFor(k, id) ==
    IF id = NoError.id
    THEN Infof(k, MsgClosed(keepers[k].name))
    ELSE IF id = DeadlineExceeded.id
         THEN Errorf(k, MsgTimeout(keepers[k].name))
         ELSE Errorf(k, MsgError(keepers[k].name, ValueOf(id)))

(***************************************************************************)
(* C25. The outcome line of a keeper follows from the value its Shutdown   *)
(* returned and from nothing else: "closed" for nil, "shutdown timeout"    *)
(* for context.DeadlineExceeded itself, "error while shutting down" with   *)
(* the error's text for every other value, whether the keeper's context    *)
(* was done when Shutdown returned or not; and a keeper has one outcome    *)
(* line, the second and last of its lines.                                 *)
(***************************************************************************)
C25_OutcomeFromReturnValue ==
    \A k \in 1..Len(keepers) :
        /\ Len(LinesOf(k)) <= 2
        /\ \A r \in Returns(k) :
              /\ r + 1 \in Positions =>
                    trace[r + 1] = LineFor(k, trace[r].msg)
              /\ OutcomeLogged(k) =>
                    LinesOf(k) = <<Infof(k, MsgShuttingDown(keepers[k].name)),
                                   LineFor(k, trace[r].msg)>>

\* The first keeper returned context.DeadlineExceeded before its deadline and
\* has the timeout line, the second returned nil after its deadline and has
\* the closed line.
C25_Witness ==
    /\ Returned
    /\ Drained = 2
    /\ \E r \in Returns(1) :
          /\ trace[r].msg = DeadlineExceeded.id /\ ~trace[r].late
          /\ trace[r + 1].msg = MsgTimeout(keepers[1].name)
    /\ \E r \in Returns(2) :
          /\ trace[r].msg = NoError.id /\ trace[r].late
          /\ trace[r + 1].msg = MsgClosed(keepers[2].name)

(***************************************************************************)
(* Wait called again on the same Finisher, with signals and triggers.      *)
(* The goroutine of Wait runs when it can and the servers' Shutdown        *)
(* returns; nothing makes a signal arrive or the program call Trigger.     *)
(***************************************************************************)
StaleNext ==
    \/ Add("srvA", <<>>)
    \/ WaitAgain
    \/ WakeSignal
    \/ WakeTrigger
    \/ LogReceived
    \/ DrainBegin
    \/ ShutdownReturn(NoError)
    \/ DrainOutcome
    \/ WaitReturn
    \/ \E t \in Trig : TriggerCall(t)
    \/ \E t \in Trig : TriggerSend(t)
    \/ \E sig \in OsSignals : Deliver(sig)

StaleSpec ==
    /\ Init
    /\ [][StaleNext]_vars
    /\ WF_vars(WaitStep)
    /\ WF_vars(ShutdownReturn(NoError))

\* The step is the select of Wait taking the manual-signal case.
TriggerCaseTaken == pc = "select" /\ pc' = "woken" /\ woke' = "trigger"

\* The Wait call number w has returned after it drained every keeper.
DrainedAll(w) ==
    /\ waits = w
    /\ Returned
    /\ Drained = Len(keepers)
    /\ \A k \in 1..Len(keepers) : Invokes(k) # {} /\ OutcomeLogged(k)

(***************************************************************************)
(* C26. A trigger stays in the manual-signal channel until a select of     *)
(* Wait takes it: a wake through a signal, the drain, the return of Wait   *)
(* and the next call of Wait leave it where it is.  A Wait called with a   *)
(* trigger in the channel wakes and drains every keeper again, with no     *)
(* new signal and no new Trigger.                                          *)
(***************************************************************************)
C26_StaleTriggerWakesNextWait ==
    /\ [][TriggerPending /\ ~TriggerCaseTaken => manSig' = manSig]_vars
    /\ \A w \in 1..MaxNameWaits :
          (waits = w /\ pc = "select" /\ TriggerPending) ~> DrainedAll(w)

\* One Trigger was ever called. The first Wait did not take it (it woke
\* through a signal); the second Wait woke through it and drained the keeper
\* again.
C26_Witness ==
    /\ DrainedAll(2)
    /\ Len(keepers) >= 1
    /\ woke = "trigger"
    /\ tpc[1] = "done"
    /\ \A t \in Trig \ {1} : tpc[t] = "idle"

====
